---- MODULE Spec2Model ----
(***************************************************************************)
(* A model of package sysinfo: getCPUInfo (the /proc/cpuinfo reader),      *)
(* getNetworkInfo (the /sys/class/net enumeration with the ethtool         *)
(* GLINKSETTINGS / GSET queries) and the decoders getMaxSpeed, getPortType *)
(* and getPortTypeForGLinkSetting.                                         *)
(*                                                                         *)
(* A Go string is a sequence of atoms, "" is << >>.  An atom is one        *)
(* character, or a word: a run of letters that stands for its spelling.    *)
(* Keys and names are written with words; a string that a parser reads     *)
(* letter by letter (the exponent, the hexadecimal digits, "inf" and "nan" *)
(* of a float) is written in single characters.  Strings are compared on   *)
(* one writing, so that string equality is sequence equality.              *)
(***************************************************************************)
EXTENDS Integers, Sequences, FiniteSets, TLC

VARIABLES
    \* ---- getCPUInfo
    Node,        \* si.Node: [Hostname, Hypervisor], set by getNodeInfo before the call
    hostCPUs,    \* what runtime.NumCPU() returns on this host
    CPU,         \* si.CPU
    cpu,         \* cpu  map[string]bool, as the set of its keys
    core,        \* core map[string]bool, as the set of its keys
    cpuCount,    \* fallback counter
    coreCount,   \* fallback counter
    cpuID,       \* the current processor value
    stream,      \* the lines of cpuInfo the scanner has returned so far
    cpc,         \* position in getCPUInfo
    \* ---- getNetworkInfo
    devices,     \* what ioutil.ReadDir returned
    idx,         \* position of the range loop in devices
    Network,     \* si.Network
    gLinkSetting,\* the ethtoolLinkSetting buffer of the modern query
    err,         \* the err variable of the loop body
    portType,
    maxSpeed,
    calls,       \* what this iteration has called so far, with the outcomes: socket()
                 \* and the ioctls of the modern query, then getSupported
    lookup,      \* what the interface address lookup of this iteration returned
    npc,         \* position in getNetworkInfo
    \* ---- getMaxSpeed
    supp,        \* the argument
    speed,       \* the result
    spc          \* position of the call

cpuVars == <<Node, hostCPUs, CPU, cpu, core, cpuCount, coreCount, cpuID, stream, cpc>>
netVars == <<devices, idx, Network, gLinkSetting, err, portType, maxSpeed, calls, lookup, npc>>
speedVars == <<supp, speed, spc>>
vars == <<cpuVars, netVars, speedVars>>

(***************************************************************************)
(* Bounds of the model.                                                    *)
(***************************************************************************)
MaxLines == 4
MaxFieldLines == 3
MaxDevices == 2

(***************************************************************************)
(* Strings.                                                                *)
(***************************************************************************)
TAB == "\t"
Digits == {"0", "1", "2", "3", "4", "5", "6", "7", "8", "9"}
DigitSeq == <<"0", "1", "2", "3", "4", "5", "6", "7", "8", "9">>
DigitVal(a) == (CHOOSE i \in 1..10 : DigitSeq[i] = a) - 1

AllDigits(s) == Len(s) > 0 /\ \A i \in 1..Len(s) : s[i] \in Digits

RECURSIVE DecValue(_)
DecValue(s) ==
    IF s = << >> THEN 0
    ELSE DecValue(SubSeq(s, 1, Len(s) - 1)) * 10 + DigitVal(s[Len(s)])

\* The number of leading z of d, and d without its leading "0".
RECURSIVE LeadingZeros(_, _)
LeadingZeros(d, z) ==
    IF d # << >> /\ d[1] = z THEN 1 + LeadingZeros(Tail(d), z) ELSE 0

StripZeros(d) == SubSeq(d, LeadingZeros(d, "0") + 1, Len(d))

\* The positions at which the regular expression "\t+: " matches: a tab, the
\* rest of its run of tabs, then ":" and " ".
RECURSIVE TabRunEnd(_, _)
TabRunEnd(s, i) == IF i < Len(s) /\ s[i + 1] = TAB THEN TabRunEnd(s, i + 1) ELSE i

MatchesTwoColumnsAt(s, i) ==
    /\ s[i] = TAB
    /\ LET j == TabRunEnd(s, i)
       IN  j + 2 <= Len(s) /\ s[j + 1] = ":" /\ s[j + 2] = " "

\* reTwoColumns.Split(s, 2): the text before the leftmost match and the text
\* after it; the whole string, alone, when nothing matches.  Never nil.
reTwoColumnsSplit(s) ==
    LET M == {i \in 1..Len(s) : MatchesTwoColumnsAt(s, i)}
    IN  IF M = {} THEN <<s>>
        ELSE LET i == CHOOSE k \in M : \A m \in M : k <= m
                 j == TabRunEnd(s, i)
             IN  <<SubSeq(s, 1, i - 1), SubSeq(s, j + 3, Len(s))>>

\* strconv.ParseInt(s, 10, 8): an optional sign, then digits; a value outside
\* -128..127 is a range error.
ParseInt8(s) ==
    LET signed == s # << >> /\ s[1] \in {"+", "-"}
        digits == IF signed THEN Tail(s) ELSE s
        short == Len(StripZeros(digits)) <= 3
        v == IF AllDigits(digits) /\ short
             THEN (IF signed /\ s[1] = "-" THEN 0 - DecValue(digits) ELSE DecValue(digits))
             ELSE 0
    IN  [err |-> ~AllDigits(digits) \/ ~short \/ v < -128 \/ v > 127, val |-> v]

\* ---- strconv.ParseFloat(s, 32), as the standard library parses: special()
\* for the infinities and NaN, readFloat() for the decimal and hexadecimal
\* forms with underscoreOK(), then the rounding to the nearest float32.

\* lower(c) on the letters the float syntax looks at.
Lower(c) ==
    CASE c = "A" -> "a" [] c = "B" -> "b" [] c = "C" -> "c" [] c = "D" -> "d"
      [] c = "E" -> "e" [] c = "F" -> "f" [] c = "I" -> "i" [] c = "N" -> "n"
      [] c = "O" -> "o" [] c = "P" -> "p" [] c = "T" -> "t" [] c = "X" -> "x"
      [] c = "Y" -> "y" [] OTHER -> c
LowerSeq(s) == [i \in 1..Len(s) |-> Lower(s[i])]

HexLetters == {"a", "b", "c", "d", "e", "f"}
HexLetterSeq == <<"a", "b", "c", "d", "e", "f">>
HexVal(c) == IF c \in Digits THEN DigitVal(c)
             ELSE 9 + (CHOOSE i \in 1..6 : HexLetterSeq[i] = Lower(c))
HexBits(c) == LET v == HexVal(c)
              IN  <<(v \div 8) % 2, (v \div 4) % 2, (v \div 2) % 2, v % 2>>

SignLen(s) == IF s # << >> /\ s[1] \in {"+", "-"} THEN 1 ELSE 0
Unsigned(s) == SubSeq(s, SignLen(s) + 1, Len(s))

\* special(): "inf" and "infinity" with an optional sign, "nan" without one,
\* in any case of the letters.
IsSpecialInf(s) ==
    LowerSeq(Unsigned(s)) \in {<<"i", "n", "f">>,
                               <<"i", "n", "f", "i", "n", "i", "t", "y">>}
IsSpecialNaN(s) == LowerSeq(s) = <<"n", "a", "n">>

\* readFloat(): the end of the mantissa that starts at i: digits, "_" and one
\* ".", with the hexadecimal letters when base is 16.
RECURSIVE MantEnd(_, _, _, _)
MantEnd(s, i, sawdot, hex) ==
    IF i > Len(s) THEN i
    ELSE IF s[i] = "." THEN (IF sawdot THEN i ELSE MantEnd(s, i + 1, TRUE, hex))
    ELSE IF s[i] = "_" \/ s[i] \in Digits \/ (hex /\ Lower(s[i]) \in HexLetters)
         THEN MantEnd(s, i + 1, sawdot, hex)
    ELSE i

\* readFloat(): the end of the exponent digits that start at i.
RECURSIVE ExpEnd(_, _)
ExpEnd(s, i) ==
    IF i <= Len(s) /\ (s[i] \in Digits \/ s[i] = "_") THEN ExpEnd(s, i + 1) ELSE i

IsMantDigit(c) == c # "_" /\ c # "."
IsDigit(c) == c \in Digits

\* readFloat() accumulates the exponent digit by digit, and only while it is
\* below 10000: if e < 10000 { e = e*10 + digit }.
RECURSIVE ExpAccum(_, _)
ExpAccum(d, e) ==
    IF d = << >> THEN e
    ELSE ExpAccum(Tail(d), IF e < 10000 THEN e * 10 + DigitVal(d[1]) ELSE e)
ExpValue(d) == ExpAccum(d, 0)

\* underscoreOK(): "_" only between digits, or between a base prefix and a digit.
RECURSIVE UnderscoreScan(_, _, _, _)
UnderscoreScan(s, i, saw, hex) ==
    IF i > Len(s) THEN saw # "_"
    ELSE IF s[i] \in Digits \/ (hex /\ Lower(s[i]) \in HexLetters)
         THEN UnderscoreScan(s, i + 1, "0", hex)
    ELSE IF s[i] = "_"
         THEN saw = "0" /\ UnderscoreScan(s, i + 1, "_", hex)
    ELSE saw # "_" /\ UnderscoreScan(s, i + 1, "!", hex)

underscoreOK(s) ==
    LET t == Unsigned(s)
        prefix == Len(t) >= 2 /\ t[1] = "0" /\ Lower(t[2]) \in {"b", "o", "x"}
    IN  IF prefix THEN UnderscoreScan(t, 3, "0", Lower(t[2]) = "x")
        ELSE UnderscoreScan(t, 1, "^", FALSE)

\* readFloat() on the whole of s, in its steps: the base prefix, the
\* mantissa, the exponent; then ok, the base, the digits of the mantissa, the
\* number dp of them before the point and the exponent e.
HexAt(s, i) == i + 2 <= Len(s) /\ s[i] = "0" /\ Lower(s[i + 1]) = "x"
MantStart(s, hex) == SignLen(s) + (IF hex THEN 3 ELSE 1)
HasExpAt(s, i, hex) == i <= Len(s) /\ Lower(s[i]) = (IF hex THEN "p" ELSE "e")
ExpStart(s, j) == IF j <= Len(s) /\ s[j] \in {"+", "-"} THEN j + 1 ELSE j
WholePart(mant) ==
    LET dots == {i \in 1..Len(mant) : mant[i] = "."}
    IN  IF dots = {} THEN mant ELSE SubSeq(mant, 1, (CHOOSE i \in dots : TRUE) - 1)

FloatParts(s, hex, mant, mEnd, hasExp, j1) ==
    LET expOk == j1 <= Len(s) /\ s[j1] \in Digits
        end == IF hasExp THEN ExpEnd(s, j1) ELSE mEnd
    IN  [ok |-> /\ SelectSeq(mant, IsMantDigit) # << >>
                /\ hasExp => expOk
                /\ hex => hasExp
                /\ (\E i \in 1..(end - 1) : s[i] = "_") => underscoreOK(SubSeq(s, 1, end - 1))
                /\ end = Len(s) + 1,
         hex |-> hex,
         digits |-> SelectSeq(mant, IsMantDigit),
         dp |-> Len(SelectSeq(WholePart(mant), IsMantDigit)),
         e |-> IF ~hasExp \/ ~expOk THEN 0
               ELSE (IF s[mEnd + 1] = "-" THEN -1 ELSE 1)
                    * ExpValue(SelectSeq(SubSeq(s, j1, end - 1), IsDigit))]

ReadExponent(s, hex, i1, mEnd) ==
    FloatParts(s, hex, SubSeq(s, i1, mEnd - 1), mEnd, HasExpAt(s, mEnd, hex),
               ExpStart(s, mEnd + 1))
ReadMantissa(s, hex, i1) == ReadExponent(s, hex, i1, MantEnd(s, i1, FALSE, hex))
ReadBase(s, hex) == ReadMantissa(s, hex, MantStart(s, hex))
readFloat(s) == ReadBase(s, HexAt(s, SignLen(s) + 1))

\* The order of 0.a and 0.b for digit sequences a and b: -1, 0 or 1.
RECURSIVE DigitsCmp(_, _)
DigitsCmp(a, b) ==
    IF a = << >> /\ b = << >> THEN 0
    ELSE LET x == IF a = << >> THEN 0 ELSE DigitVal(a[1])
             y == IF b = << >> THEN 0 ELSE DigitVal(b[1])
         IN  IF x < y THEN -1 ELSE IF x > y THEN 1
             ELSE DigitsCmp(IF a = << >> THEN a ELSE Tail(a),
                            IF b = << >> THEN b ELSE Tail(b))

Zeros(n) == [i \in 1..n |-> "0"]

\* The fraction digits of 1 - 2^-m, m in 1..25.
OneMinusPow2 ==
    <<
       <<"5">>,
       <<"7", "5">>,
       <<"8", "7", "5">>,
       <<"9", "3", "7", "5">>,
       <<"9", "6", "8", "7", "5">>,
       <<"9", "8", "4", "3", "7", "5">>,
       <<"9", "9", "2", "1", "8", "7", "5">>,
       <<"9", "9", "6", "0", "9", "3", "7", "5">>,
       <<"9", "9", "8", "0", "4", "6", "8", "7", "5">>,
       <<"9", "9", "9", "0", "2", "3", "4", "3", "7", "5">>,
       <<"9", "9", "9", "5", "1", "1", "7", "1", "8", "7", "5">>,
       <<"9", "9", "9", "7", "5", "5", "8", "5", "9", "3", "7", "5">>,
       <<"9", "9", "9", "8", "7", "7", "9", "2", "9", "6", "8", "7", "5">>,
       <<"9", "9", "9", "9", "3", "8", "9", "6", "4", "8", "4", "3", "7", "5">>,
       <<"9", "9", "9", "9", "6", "9", "4", "8", "2", "4", "2", "1", "8", "7", "5">>,
       <<"9", "9", "9", "9", "8", "4", "7", "4", "1", "2", "1", "0", "9", "3", "7", "5">>,
       <<"9", "9", "9", "9", "9", "2", "3", "7", "0", "6", "0", "5", "4", "6", "8", "7", "5">>,
       <<"9", "9", "9", "9", "9", "6", "1", "8", "5", "3", "0", "2", "7", "3", "4", "3", "7", "5">>,
       <<"9", "9", "9", "9", "9", "8", "0", "9", "2", "6", "5", "1", "3", "6", "7", "1", "8", "7", "5">>,
       <<"9", "9", "9", "9", "9", "9", "0", "4", "6", "3", "2", "5", "6", "8", "3", "5", "9", "3", "7", "5">>,
       <<"9", "9", "9", "9", "9", "9", "5", "2", "3", "1", "6", "2", "8", "4", "1", "7", "9", "6", "8", "7", "5">>,
       <<"9", "9", "9", "9", "9", "9", "7", "6", "1", "5", "8", "1", "4", "2", "0", "8", "9", "8", "4", "3", "7", "5">>,
       <<"9", "9", "9", "9", "9", "9", "8", "8", "0", "7", "9", "0", "7", "1", "0", "4", "4", "9", "2", "1", "8", "7", "5">>,
       <<"9", "9", "9", "9", "9", "9", "9", "4", "0", "3", "9", "5", "3", "5", "5", "2", "2", "4", "6", "0", "9", "3", "7", "5">>,
       <<"9", "9", "9", "9", "9", "9", "9", "7", "0", "1", "9", "7", "6", "7", "7", "6", "1", "2", "3", "0", "4", "6", "8", "7", "5">>
    >>

\* The digits of 2^128 - 2^103, half way from the largest float32 to 2^128:
\* a value from there on rounds out of the float32 range.
Float32Overflow == <<"3", "4", "0", "2", "8", "2", "3", "5", "6", "7", "7", "9", "7", "3", "3", "6", "6", "1", "6", "3", "7", "5", "3", "9", "3", "9", "5", "4", "5", "8", "1", "4", "2", "5", "6", "8", "4", "4", "8">>

\* The digits of 2^30: the integers of the model stay below it.
ModelLimit == <<"1", "0", "7", "3", "7", "4", "1", "8", "2", "4">>

RECURSIVE Log2Floor(_)
Log2Floor(n) == IF n < 2 THEN 0 ELSE 1 + Log2Floor(n \div 2)

RECURSIVE BinValue(_)
BinValue(b) == IF b = << >> THEN 0 ELSE BinValue(SubSeq(b, 1, Len(b) - 1)) * 2 + b[Len(b)]

\* A float32 result: err for a range error, large for a value from 2^30 on,
\* otherwise ip, the integer part of the float32 nearest to the value.
FloatResult(e, l, i) == [err |-> e, large |-> l, ip |-> i]
ModelFloat(v) == IF v >= 2 ^ 30 THEN FloatResult(FALSE, TRUE, 0)
                 ELSE FloatResult(FALSE, FALSE, v)

\* The float32 nearest to I + 0.F (ties to even), truncated, for I < 2^30.
\* Below 2^23 the float32 next to an integer is nearer than 1: I is kept, or
\* I + 1 is reached from 1 - 2^-m on.  From 2^23 on the float32 are the
\* multiples of u.
RoundToUnit(q, r, h, F, u) ==
    LET up == IF u = 1
              THEN \/ DigitsCmp(F, <<"5">>) > 0
                   \/ DigitsCmp(F, <<"5">>) = 0 /\ q % 2 = 1
              ELSE \/ r > h
                   \/ r = h /\ DigitsCmp(F, << >>) > 0
                   \/ r = h /\ DigitsCmp(F, << >>) = 0 /\ q % 2 = 1
    IN  (q + (IF up THEN 1 ELSE 0)) * u
RoundFrom(I, F, k) ==
    IF k <= 22 THEN (IF DigitsCmp(F, OneMinusPow2[24 - k]) >= 0 THEN I + 1 ELSE I)
    ELSE RoundToUnit(I \div (2 ^ (k - 23)), I % (2 ^ (k - 23)), (2 ^ (k - 23)) \div 2,
                     F, 2 ^ (k - 23))
RoundTrunc(I, F) ==
    IF I = 0 THEN (IF DigitsCmp(F, OneMinusPow2[25]) >= 0 THEN 1 ELSE 0)
    ELSE RoundFrom(I, F, Log2Floor(I))

\* The significant decimal digits sig of a value in 10^(p-1) .. 10^p.
DecimalSig(sig, p) ==
    IF sig = << >> THEN FloatResult(FALSE, FALSE, 0)
    ELSE IF p >= 40 \/ (p = 39 /\ DigitsCmp(sig, Float32Overflow) >= 0)
         THEN FloatResult(TRUE, FALSE, 0)
    ELSE IF p >= 11 \/ (p = 10 /\ DigitsCmp(sig, ModelLimit) >= 0)
         THEN FloatResult(FALSE, TRUE, 0)
    ELSE IF p < 0 THEN FloatResult(FALSE, FALSE, 0)
    ELSE IF p = 0 THEN FloatResult(FALSE, FALSE, RoundTrunc(0, sig))
    ELSE ModelFloat(RoundTrunc(
             DecValue(IF Len(sig) >= p THEN SubSeq(sig, 1, p)
                      ELSE sig \o Zeros(p - Len(sig))),
             SubSeq(sig, p + 1, Len(sig))))

\* The decimal mantissa digits d with dp of them before the point, times 10^e.
DecimalToFloat32(d, dp, e) == DecimalSig(StripZeros(d), dp - LeadingZeros(d, "0") + e)

\* The 24-bit mantissa mant of a value in 2^(pb-1) .. 2^pb.
Float32OfBits(mant, pb) ==
    IF pb > 128 THEN FloatResult(TRUE, FALSE, 0)
    ELSE IF pb > 30 THEN FloatResult(FALSE, TRUE, 0)
    ELSE IF pb <= 0 THEN FloatResult(FALSE, FALSE, 0)
    ELSE IF pb <= 24 THEN FloatResult(FALSE, FALSE, mant \div (2 ^ (24 - pb)))
    ELSE FloatResult(FALSE, FALSE, mant * (2 ^ (pb - 24)))

\* The significant bits sig rounded to 24 bits, ties to even.
RoundsUp(sig) ==
    /\ Len(sig) > 24
    /\ sig[25] = 1
    /\ (sig[24] = 1 \/ \E i \in 26..Len(sig) : sig[i] = 1)
Mant24(sig) ==
    IF Len(sig) <= 24 THEN BinValue(sig) * (2 ^ (24 - Len(sig)))
    ELSE BinValue(SubSeq(sig, 1, 24)) + (IF RoundsUp(sig) THEN 1 ELSE 0)
NormalizeMant(mant, pb) ==
    IF mant = 2 ^ 24 THEN Float32OfBits(2 ^ 23, pb + 1) ELSE Float32OfBits(mant, pb)
RoundBits(sig, pb) ==
    IF sig = << >> THEN FloatResult(FALSE, FALSE, 0)
    ELSE NormalizeMant(Mant24(sig), pb)

\* The hexadecimal mantissa digits d with dp of them before the point, times 2^e.
BitsOfHex(d) ==
    IF d = << >> THEN << >>
    ELSE [i \in 1..(4 * Len(d)) |-> HexBits(d[(i + 3) \div 4])[((i - 1) % 4) + 1]]
StripBits(bits, pb) ==
    RoundBits(SubSeq(bits, LeadingZeros(bits, 0) + 1, Len(bits)), pb - LeadingZeros(bits, 0))
HexToFloat32(d, dp, e) == StripBits(BitsOfHex(d), 4 * dp + e)

\* strconv.ParseFloat(s, 32): err, and when there is none the class of the
\* value ("nan", "inf", "large" from 2^30 on, else "finite"), its sign and, for
\* a finite value, the integer part ip of its magnitude.
ErrFloat == [err |-> TRUE, class |-> "error", neg |-> FALSE, ip |-> 0]
SignedFloat(neg, f) ==
    IF f.err THEN ErrFloat
    ELSE [err |-> FALSE, class |-> IF f.large THEN "large" ELSE "finite",
          neg |-> neg, ip |-> f.ip]
FloatOf(s, r) ==
    IF ~r.ok THEN ErrFloat
    ELSE SignedFloat(s[1] = "-", IF r.hex THEN HexToFloat32(r.digits, r.dp, r.e)
                                 ELSE DecimalToFloat32(r.digits, r.dp, r.e))
ParseFloat32(s) ==
    IF IsSpecialNaN(s) THEN [err |-> FALSE, class |-> "nan", neg |-> FALSE, ip |-> 0]
    ELSE IF IsSpecialInf(s)
         THEN [err |-> FALSE, class |-> "inf", neg |-> s[1] = "-", ip |-> 0]
    ELSE FloatOf(s, readFloat(s))

\* uint(f): the fraction is discarded.  The conversion of a value below 0 or
\* of an infinity or NaN is implementation-dependent, and a value from 2^30 on
\* is outside the integers of the model: uint(f) is left undefined for them,
\* and no line of the model's streams has such a value.
UintOfFloat(f) ==
    IF f.class = "finite" /\ (~f.neg \/ f.ip = 0) THEN f.ip
    ELSE CHOOSE n \in {} : TRUE

\* strconv.ParseUint(d, 10, 64) on a string of digits: a value above 2^64 - 1
\* is a range error.  val is left undefined from 2^30 on, outside the integers
\* of the model.
MaxUint64 == <<"1", "8", "4", "4", "6", "7", "4", "4", "0", "7", "3", "7", "0", "9",
               "5", "5", "1", "6", "1", "5">>
ParseUint64(d) ==
    LET t == StripZeros(d)
        range == Len(t) > 20 \/ (Len(t) = 20 /\ DigitsCmp(t, MaxUint64) > 0)
        inModel == Len(t) < 10 \/ (Len(t) = 10 /\ DigitsCmp(t, ModelLimit) < 0)
    IN  [err |-> range,
         val |-> IF range THEN 0
                 ELSE IF inModel THEN DecValue(t) ELSE CHOOSE n \in {} : TRUE]

\* reCacheSize.FindStringSubmatch(s), "^(\d+) KB$": the digits, or nil.
reCacheSizeMatch(s) ==
    LET n == Len(s)
    IN  IF n >= 4 /\ SubSeq(s, n - 2, n) = <<" ", "K", "B">> /\ AllDigits(SubSeq(s, 1, n - 3))
        THEN [nil |-> FALSE, m1 |-> SubSeq(s, 1, n - 3)]
        ELSE [nil |-> TRUE, m1 |-> << >>]

\* reExtraSpace.ReplaceAllLiteralString(s, " "): every run of spaces becomes one.
RECURSIVE CollapseSpaces(_)
CollapseSpaces(s) ==
    IF Len(s) < 2 THEN s
    ELSE IF s[1] = " " /\ s[2] = " " THEN CollapseSpaces(Tail(s))
    ELSE <<s[1]>> \o CollapseSpaces(Tail(s))

\* strings.Replace(s, "- ", "-", 1)
ReplaceFirstDashSpace(s) ==
    LET M == {i \in 1..(Len(s) - 1) : s[i] = "-" /\ s[i + 1] = " "}
    IN  IF M = {} THEN s
        ELSE LET i == CHOOSE k \in M : \A m \in M : k <= m
             IN  SubSeq(s, 1, i) \o SubSeq(s, i + 2, Len(s))

CleanModel(v) == ReplaceFirstDashSpace(CollapseSpaces(v))

\* fmt.Sprintf("%s/%s", a, b)
SprintfCoreID_NoCpu(a, b) == b
SprintfCoreID(a, b) == a \o <<"/">> \o b

(***************************************************************************)
(* The keys getCPUInfo switches on.                                        *)
(***************************************************************************)
KeyProcessor == <<"processor">>
KeyCoreID == <<"core", " ", "id">>
KeyCpuCores == <<"cpu", " ", "cores">>
KeyVendorID == <<"vendor_id">>
KeyFlags == <<"flags">>
KeyModelName == <<"model", " ", "name">>
KeyCpuMHz == <<"cpu", " ", "MHz">>
KeyCacheSize == <<"cache", " ", "size">>
Keys == {KeyProcessor, KeyCoreID, KeyCpuCores, KeyVendorID, KeyFlags,
         KeyModelName, KeyCpuMHz, KeyCacheSize}

Sep1 == <<TAB, ":", " ">>
Sep2 == <<TAB, TAB, ":", " ">>
Line(k, sep, v) == k \o sep \o v

(***************************************************************************)
(* getCPUInfo.                                                             *)
(***************************************************************************)
ZeroCPU == [Vendor |-> << >>, Model |-> << >>, Speed |-> 0, Cache |-> 0,
            Cpus |-> 0, Cores |-> 0, Threads |-> 0, Flags |-> << >>]

\* The hosts: hostname unknown, bare metal, and a guest of a hypervisor.
Nodes == {[Hostname |-> "", Hypervisor |-> ""],
          [Hostname |-> "host", Hypervisor |-> ""],
          [Hostname |-> "host", Hypervisor |-> "kvm"]}
HostCPUCounts == {1, 4}

InitCPU ==
    /\ Node \in Nodes
    /\ hostCPUs \in HostCPUCounts
    /\ CPU = ZeroCPU
    /\ cpu = {}
    /\ core = {}
    /\ cpuCount = 0
    /\ coreCount = 0
    /\ cpuID = << >>
    /\ stream = << >>
    /\ cpc = "entry"

\* si.CPU.Threads = uint(runtime.NumCPU()), then os.Open(cpuInfo) fails.
OpenFail ==
    /\ cpc = "entry"
    /\ CPU' = [CPU EXCEPT !.Threads = hostCPUs]
    /\ cpc' = "open_failed"
    /\ UNCHANGED <<Node, hostCPUs, cpu, core, cpuCount, coreCount, cpuID, stream>>
    /\ UNCHANGED <<netVars, speedVars>>

\* si.CPU.Threads = uint(runtime.NumCPU()), then os.Open(cpuInfo) succeeds.
OpenOk ==
    /\ cpc = "entry"
    /\ CPU' = [CPU EXCEPT !.Threads = hostCPUs]
    /\ cpc' = "scan"
    /\ UNCHANGED <<Node, hostCPUs, cpu, core, cpuCount, coreCount, cpuID, stream>>
    /\ UNCHANGED <<netVars, speedVars>>

\* if si.CPU.X == "" { si.CPU.X = v }
SetIfEmpty_Always(old, new) == new
SetIfEmpty(old, new) == IF old = << >> THEN new ELSE old

\* case "cpu MHz"
SpeedAfter(old, v) ==
    IF old = 0
    THEN LET f == ParseFloat32(v) IN IF f.err THEN old ELSE UintOfFloat(f)
    ELSE old

\* case "cache size"
CacheAfter(old, v) ==
    IF old = 0
    THEN LET m == reCacheSizeMatch(v)
             c == ParseUint64(m.m1)
         IN  IF m.nil \/ c.err THEN old ELSE c.val
    ELSE old

\* case "cpu cores"
CoreCountAfter(old, v) ==
    LET c == ParseInt8(v) IN (IF c.err THEN old ELSE old + c.val) + 1

\* Whether the case of key k evaluates sl[1]: the cases of "processor",
\* "core id" and "cpu cores" always do, the case of a descriptive field only
\* inside its test that the field is still "" or 0.
ReadsValue(k, c) ==
    \/ k \in {KeyProcessor, KeyCoreID, KeyCpuCores}
    \/ k = KeyVendorID /\ c.Vendor = << >>
    \/ k = KeyFlags /\ c.Flags = << >>
    \/ k = KeyModelName /\ c.Model = << >>
    \/ k = KeyCpuMHz /\ c.Speed = 0
    \/ k = KeyCacheSize /\ c.Cache = 0

\* One iteration of the scanner loop on a line of L.  sl[0] and sl[1] of the
\* source are sl[1] and sl[2] here.  Evaluating sl[1] of a one-element slice
\* panics; a case that does not evaluate it leaves everything as it is.
ScanLine(L, max) ==
    /\ cpc = "scan"
    /\ Len(stream) < max
    /\ \E line \in L :
        LET sl == reTwoColumnsSplit(line)
            hit == sl # << >> /\ sl[1] \in Keys
            reads == hit /\ ReadsValue(sl[1], CPU)
        IN  /\ stream' = Append(stream, line)
            /\ IF reads /\ Len(sl) < 2
               THEN /\ cpc' = "panic"
                    /\ UNCHANGED <<CPU, cpu, core, cpuCount, coreCount, cpuID>>
               ELSE LET full == hit /\ Len(sl) = 2
                        k == IF full THEN sl[1] ELSE << >>
                        v == IF full THEN sl[2] ELSE << >>
                    IN  /\ cpc' = "scan"
                        /\ cpuID' = IF k = KeyProcessor THEN v ELSE cpuID
                        /\ cpu' = IF k = KeyProcessor THEN cpu \cup {v} ELSE cpu
                        /\ cpuCount' = IF k = KeyProcessor THEN cpuCount + 1 ELSE cpuCount
                        /\ core' = IF k = KeyCoreID
                                   THEN core \cup {SprintfCoreID(cpuID, v)} ELSE core
                        /\ coreCount' = IF k = KeyCpuCores
                                        THEN CoreCountAfter(coreCount, v) ELSE coreCount
                        /\ CPU' = CASE k = KeyVendorID ->
                                         [CPU EXCEPT !.Vendor = SetIfEmpty(@, v)]
                                    [] k = KeyFlags ->
                                         [CPU EXCEPT !.Flags = SetIfEmpty(@, v)]
                                    [] k = KeyModelName ->
                                         [CPU EXCEPT !.Model = SetIfEmpty(@, CleanModel(v))]
                                    [] k = KeyCpuMHz ->
                                         [CPU EXCEPT !.Speed = SpeedAfter(@, v)]
                                    [] k = KeyCacheSize ->
                                         [CPU EXCEPT !.Cache = CacheAfter(@, v)]
                                    [] OTHER -> CPU
    /\ UNCHANGED <<Node, hostCPUs>>
    /\ UNCHANGED <<netVars, speedVars>>

\* s.Scan() returns false with s.Err() != nil: the function returns.
ScanErr ==
    /\ cpc = "scan"
    /\ cpc' = "scan_error"
    /\ UNCHANGED <<Node, hostCPUs, CPU, cpu, core, cpuCount, coreCount, cpuID, stream>>
    /\ UNCHANGED <<netVars, speedVars>>

\* The assignments after the loop: the fallback counters when the hostname is
\* unknown or a hypervisor was detected, and then, in every case, the set sizes.
\* (The counters are never negative for the lines of this model, so uint(x) is x.)
FinalCounts_FallbackKept(c, virt, nCpu, nCore, ids, cores) ==
    IF virt THEN [c EXCEPT !.Cpus = nCpu, !.Cores = nCore]
    ELSE [c EXCEPT !.Cpus = Cardinality(ids), !.Cores = Cardinality(cores)]

FinalCounts(c, virt, nCpu, nCore, ids, cores) ==
    LET c1 == IF virt THEN [c EXCEPT !.Cpus = nCpu, !.Cores = nCore] ELSE c
    IN  [c1 EXCEPT !.Cpus = Cardinality(ids), !.Cores = Cardinality(cores)]

Virtualized == Node.Hostname = "" \/ Node.Hypervisor # ""

\* s.Scan() returns false with s.Err() == nil: the stream is at its end.
ScanEnd ==
    /\ cpc = "scan"
    /\ CPU' = FinalCounts(CPU, Virtualized, cpuCount, coreCount, cpu, core)
    /\ cpc' = "finished"
    /\ UNCHANGED <<Node, hostCPUs, cpu, core, cpuCount, coreCount, cpuID, stream>>
    /\ UNCHANGED <<netVars, speedVars>>

(***************************************************************************)
(* The lines of the record streams.                                        *)
(***************************************************************************)
TopoLines ==
    { Line(KeyProcessor, Sep1, <<"0">>),
      Line(KeyProcessor, Sep1, <<"1">>),
      Line(KeyCoreID, Sep2, <<"0">>),
      Line(KeyCoreID, Sep2, <<"1">>),
      Line(KeyCpuCores, Sep1, <<"1">>),
      Line(KeyCpuCores, Sep1, <<"2", "0", "0">>),
      KeyProcessor,
      << >> }

FieldLines ==
    { Line(KeyVendorID, Sep1, <<"GenuineIntel">>),
      Line(KeyVendorID, Sep1, <<"AuthenticAMD">>),
      Line(KeyVendorID, Sep1, << >>),
      Line(KeyFlags, Sep2, <<"fpu", " ", "vme">>),
      Line(KeyFlags, Sep2, <<"fpu">>),
      Line(KeyFlags, Sep2, << >>),
      Line(KeyModelName, Sep1, <<"Intel", " ", " ", "Xeon", "-", " ", "E5", "-", " ", "v4">>),
      Line(KeyModelName, Sep1, <<"AMD", " ", "EPYC">>),
      Line(KeyModelName, Sep1, << >>),
      Line(KeyCpuMHz, Sep2, <<"2", "5", "0", "0", ".", "0", "0", "0">>),
      Line(KeyCpuMHz, Sep2, <<"1", ".", "5", "e", "3">>),
      Line(KeyCpuMHz, Sep2, <<"0", ".", "5">>),
      Line(KeyCpuMHz, Sep2, <<"unknown">>),
      Line(KeyCacheSize, Sep1, <<"3", "2", " ", "K", "B">>),
      Line(KeyCacheSize, Sep1, <<"6", "4", " ", "K", "B">>),
      Line(KeyCacheSize, Sep1, <<"0", " ", "K", "B">>),
      Line(KeyCacheSize, Sep1, <<"3", "0", "M", "B">>),
      <<"bogomips">> \o Sep1 \o <<"5", "0", "0", "0">>,
      KeyModelName }

ScanTopo == ScanLine(TopoLines, MaxLines)
ScanFields == ScanLine(FieldLines, MaxFieldLines)

(***************************************************************************)
(* The decoders of network.go.  A uint32 bit mask is the set of the        *)
(* positions (0..31) of its 1 bits, so that x&m > 0 is "x and the bits of  *)
(* m have a position in common".                                           *)
(***************************************************************************)
BitsOf(n) == {b \in 0..30 : (n \div (2 ^ b)) % 2 = 1}
AndNonZero(x, m) == x \cap BitsOf(m) # {}

PortLabels == <<"tp", "aui", "mii", "fibre", "bnc">>

\* strings.TrimRight(s, "/")
RECURSIVE TrimRightSlash(_)
TrimRightSlash(s) ==
    IF s # << >> /\ s[Len(s)] = "/" THEN TrimRightSlash(SubSeq(s, 1, Len(s) - 1)) ELSE s

RECURSIVE PortLoop(_, _)
PortLoop(x, i) ==
    IF i > 4 THEN << >>
    ELSE (IF (i + 7) \in x THEN <<PortLabels[i + 1], "/">> ELSE << >>) \o PortLoop(x, i + 1)

getPortType(x) == TrimRightSlash(PortLoop(x, 0))

getPortTypeForGLinkSetting(p) ==
    CASE p = 0 -> <<"twisted", " ", "pair">>
      [] p = 1 -> <<"AUI">>
      [] p = 2 -> <<"media", "-", "independent">>
      [] p = 3 -> <<"fibre">>
      [] p = 4 -> <<"BNC">>
      [] p = 5 -> <<"direct", " ", "attach">>
      [] p = 239 -> <<"none">>
      [] p = 255 -> <<"other">>
      [] OTHER -> << >>

\* The same switch with the 10000 and the 1000 case in each other's place.
getMaxSpeed_Swapped(x) ==
    IF AndNonZero(x, 2013265920) THEN 56000
    ELSE IF AndNonZero(x, 125829120) THEN 40000
    ELSE IF AndNonZero(x, 6291456) THEN 20000
    ELSE IF AndNonZero(x, 131120) THEN 1000
    ELSE IF AndNonZero(x, 32768) THEN 2500
    ELSE IF AndNonZero(x, 1839104) THEN 10000
    ELSE IF AndNonZero(x, 12) THEN 100
    ELSE IF AndNonZero(x, 3) THEN 10
    ELSE 0

\* switch { case supp&0x78000000 > 0: ... }: the first case that holds, in the
\* order of the source; 0x78000000 = 2013265920, 0x07800000 = 125829120,
\* 0x00600000 = 6291456, 0x001c1000 = 1839104, 0x00008000 = 32768,
\* 0x00020030 = 131120, 0x0000000c = 12, 0x00000003 = 3.
getMaxSpeed(x) ==
    IF AndNonZero(x, 2013265920) THEN 56000
    ELSE IF AndNonZero(x, 125829120) THEN 40000
    ELSE IF AndNonZero(x, 6291456) THEN 20000
    ELSE IF AndNonZero(x, 1839104) THEN 10000
    ELSE IF AndNonZero(x, 32768) THEN 2500
    ELSE IF AndNonZero(x, 131120) THEN 1000
    ELSE IF AndNonZero(x, 12) THEN 100
    ELSE IF AndNonZero(x, 3) THEN 10
    ELSE 0

\* getSupported: what it returns for an outcome of socket() and of the GSET ioctl.
getSupported(out) ==
    IF out.socket # "ok" THEN {}
    ELSE IF out.errno = 0 THEN out.Supported
    ELSE {}

(***************************************************************************)
(* A call of getMaxSpeed on a mask.                                        *)
(***************************************************************************)
MaskBits == {0, 2, 4, 5, 7, 12, 15, 17, 18, 21, 23, 27, 30, 31}

InitSpeed ==
    /\ supp \in SUBSET MaskBits
    /\ speed = 0
    /\ spc = "call"

CallGetMaxSpeed ==
    /\ spc = "call"
    /\ speed' = getMaxSpeed(supp)
    /\ spc' = "returned"
    /\ UNCHANGED supp
    /\ UNCHANGED <<cpuVars, netVars>>

(***************************************************************************)
(* getNetworkInfo.                                                         *)
(***************************************************************************)
DevNames == <<"eth0", "eth1", "lo", "wlan0", "wlan1">>

\* An entry of /sys/class/net: a symlink to a device with a driver ("link"),
\* a symlink to a device without one ("virtual"), a symlink whose target does
\* not exist ("dangling"), or a regular file such as bonding_masters ("file").
Kinds == {"link", "virtual", "dangling", "file"}

Listings ==
    UNION { { [i \in 1..n |-> [Name |-> DevNames[i], Kind |-> k[i]]] : k \in [1..n -> Kinds] }
            : n \in 0..MaxDevices }

\* os.Readlink(fullpath) is readlink(2): it returns the text of a symlink
\* whether or not the target exists, and fails on what is not a symlink.
ReadlinkErr_TargetMissing(e) == e.Kind \in {"file", "dangling"}
ReadlinkErr(e) == e.Kind = "file"

\* os.Readlink(path.Join(fullpath, "device", "driver")) and path.Base
DriverOf(e) == IF e.Kind = "link" THEN <<"e1000">> ELSE << >>

\* slurpFile(path.Join(fullpath, "address"))
SlurpAddress(e) == IF e.Kind \in {"link", "virtual"} THEN <<"02:00:00:00:00:01">> ELSE << >>

GLINKSETTING == 76

ZeroLinkSetting == [Cmd |-> 0, Speed |-> 0, Port |-> 0, LinkModeMasksNwords |-> 0]

\* What the kernel may answer.
NwordsAnswers == {-3, 0, 3}
CmdAnswers == {GLINKSETTING, 0}
PortAnswers == {3, 239}
SpeedAnswers == {10000}
SupportedAnswers == {{5, 7}, {10, 12, 17}}
Addrs == <<[IP |-> "10.0.0.1", Prefix |-> "24"], [IP |-> "fe80::1", Prefix |-> "64"]>>
LookupAnswers == {[ok |-> FALSE, addrs |-> << >>],
                  [ok |-> TRUE, addrs |-> SubSeq(Addrs, 1, 1)],
                  [ok |-> TRUE, addrs |-> Addrs]}
NoLookup == [ok |-> FALSE, addrs |-> << >>]

\* v.String() of an address
AddrString(a) == <<a.IP, "/", a.Prefix>>

InitNet ==
    /\ devices = << >>
    /\ idx = 0
    /\ Network = << >>
    /\ gLinkSetting = ZeroLinkSetting
    /\ err = "nil"
    /\ portType = << >>
    /\ maxSpeed = 0
    /\ calls = << >>
    /\ lookup = NoLookup
    /\ npc = "entry"

\* ioutil.ReadDir(sysClassNet) fails: return.
ReadDirFail ==
    /\ npc = "entry"
    /\ npc' = "done"
    /\ UNCHANGED <<devices, idx, Network, gLinkSetting, err, portType, maxSpeed, calls, lookup>>
    /\ UNCHANGED <<cpuVars, speedVars>>

ReadDirOk ==
    /\ npc = "entry"
    /\ \E l \in Listings : devices' = l
    /\ idx' = 1
    /\ Network' = << >>
    /\ npc' = "loop"
    /\ UNCHANGED <<gLinkSetting, err, portType, maxSpeed, calls, lookup>>
    /\ UNCHANGED <<cpuVars, speedVars>>

\* The head of an iteration: os.Readlink(fullpath); continue on an error.
LinkCheck_ReturnOnError ==
    /\ npc = "loop"
    /\ idx <= Len(devices)
    /\ IF ReadlinkErr(devices[idx])
       THEN /\ idx' = idx
            /\ npc' = "done"
       ELSE /\ idx' = idx
            /\ npc' = "try_modern"
    /\ gLinkSetting' = ZeroLinkSetting
    /\ err' = "nil"
    /\ portType' = << >>
    /\ maxSpeed' = 0
    /\ calls' = << >>
    /\ lookup' = NoLookup
    /\ UNCHANGED <<devices, Network>>
    /\ UNCHANGED <<cpuVars, speedVars>>

LinkCheck ==
    /\ npc = "loop"
    /\ idx <= Len(devices)
    /\ IF ReadlinkErr(devices[idx])
       THEN /\ idx' = idx + 1
            /\ npc' = "loop"
       ELSE /\ idx' = idx
            /\ npc' = "try_modern"
    /\ gLinkSetting' = ZeroLinkSetting
    /\ err' = "nil"
    /\ portType' = << >>
    /\ maxSpeed' = 0
    /\ calls' = << >>
    /\ lookup' = NoLookup
    /\ UNCHANGED <<devices, Network>>
    /\ UNCHANGED <<cpuVars, speedVars>>

\* getSupportedWithEthtoolGLinkSetting up to its first ioctl.
TryModern ==
    /\ npc = "try_modern"
    /\ \/ /\ calls' = <<[call |-> "socket", ok |-> FALSE]>>
          /\ err' = "socket"
          /\ gLinkSetting' = gLinkSetting
          /\ npc' = "fallback_legacy"
       \/ /\ calls' = <<[call |-> "socket", ok |-> TRUE],
                        [call |-> "GLINKSETTINGS", ok |-> FALSE]>>
          /\ err' = "glink"
          /\ gLinkSetting' = [gLinkSetting EXCEPT !.Cmd = GLINKSETTING]
          /\ npc' = "fallback_legacy"
       \/ \E nw \in NwordsAnswers, c \in CmdAnswers :
            /\ calls' = <<[call |-> "socket", ok |-> TRUE],
                          [call |-> "GLINKSETTINGS", ok |-> TRUE, nwords |-> nw, cmd |-> c]>>
            /\ err' = err
            /\ gLinkSetting' = [gLinkSetting EXCEPT !.Cmd = c, !.LinkModeMasksNwords = nw]
            /\ npc' = "modern_handshake"
    /\ UNCHANGED <<devices, idx, Network, portType, maxSpeed, lookup>>
    /\ UNCHANGED <<cpuVars, speedVars>>

\* if ethtoolLinkSetting.LinkModeMasksNwords >= 0 || ethtoolLinkSetting.Cmd != 0x4c
HandshakeRejected_Positive(g) == g.LinkModeMasksNwords > 0 \/ g.Cmd # GLINKSETTING
HandshakeRejected(g) == g.LinkModeMasksNwords >= 0 \/ g.Cmd # GLINKSETTING

\* The negation of an int8
Neg8(x) == IF x = -128 THEN -128 ELSE 0 - x

ModernHandshake ==
    /\ npc = "modern_handshake"
    /\ IF HandshakeRejected(gLinkSetting)
       THEN /\ err' = "nwords"
            /\ gLinkSetting' = gLinkSetting
            /\ npc' = "fallback_legacy"
       ELSE /\ err' = err
            /\ gLinkSetting' = [gLinkSetting EXCEPT
                                   !.LinkModeMasksNwords = Neg8(@)]
            /\ npc' = "modern_full"
    /\ UNCHANGED <<devices, idx, Network, portType, maxSpeed, calls, lookup>>
    /\ UNCHANGED <<cpuVars, speedVars>>

\* The second ioctl, and on its success the else branch of the loop body.
ModernFull ==
    /\ npc = "modern_full"
    /\ \/ /\ calls' = Append(calls, [call |-> "GLINKSETTINGS", ok |-> FALSE])
          /\ err' = "glink2"
          /\ UNCHANGED <<gLinkSetting, portType, maxSpeed>>
          /\ npc' = "fallback_legacy"
       \/ \E p \in PortAnswers, sp \in SpeedAnswers :
            /\ calls' = Append(calls, [call |-> "GLINKSETTINGS", ok |-> TRUE,
                                       port |-> p, speed |-> sp])
            /\ err' = "nil"
            /\ gLinkSetting' = [gLinkSetting EXCEPT !.Port = p, !.Speed = sp]
            /\ portType' = getPortTypeForGLinkSetting(p)
            /\ maxSpeed' = sp
            /\ npc' = "addrs"
    /\ UNCHANGED <<devices, idx, Network, lookup>>
    /\ UNCHANGED <<cpuVars, speedVars>>

\* if err != nil { supp := getSupported(...); ... }
FallbackLegacy ==
    /\ npc = "fallback_legacy"
    /\ \E out \in {[socket |-> "err", errno |-> 0, Supported |-> {}],
                   [socket |-> "ok", errno |-> 19, Supported |-> {}]}
                  \cup {[socket |-> "ok", errno |-> 0, Supported |-> m] : m \in SupportedAnswers} :
         LET x == getSupported(out)
         IN  /\ calls' = Append(calls, [call |-> "getSupported", socket |-> out.socket,
                                            ok |-> out.socket = "ok" /\ out.errno = 0,
                                            supported |-> out.Supported])
             /\ portType' = getPortType(x)
             /\ maxSpeed' = getMaxSpeed(x)
    /\ npc' = "addrs"
    /\ UNCHANGED <<devices, idx, Network, gLinkSetting, err, lookup>>
    /\ UNCHANGED <<cpuVars, speedVars>>

\* deviceAddresses: net.InterfaceByName, whose error is dropped, then
\* "if err == nil" on the err of the modern query, then Addrs().
deviceAddressesOf(e, lk) ==
    IF e = "nil" /\ lk.ok
    THEN [i \in 1..Len(lk.addrs) |-> AddrString(lk.addrs[i])]
    ELSE << >>

\* The rest of the loop body: the addresses, the device, the append.
AppendDevice ==
    /\ npc = "addrs"
    /\ \E lk \in LookupAnswers :
         /\ lookup' = lk
         /\ Network' = Append(Network,
                [Name |-> devices[idx].Name,
                 Driver |-> DriverOf(devices[idx]),
                 IpAddresses |-> deviceAddressesOf(err, lk),
                 MACAddress |-> SlurpAddress(devices[idx]),
                 Port |-> portType,
                 Speed |-> maxSpeed])
    /\ idx' = idx + 1
    /\ npc' = "loop"
    /\ UNCHANGED <<devices, gLinkSetting, err, portType, maxSpeed, calls>>
    /\ UNCHANGED <<cpuVars, speedVars>>

\* The range loop is over: return.
Return ==
    /\ npc = "loop"
    /\ idx > Len(devices)
    /\ npc' = "done"
    /\ UNCHANGED <<devices, idx, Network, gLinkSetting, err, portType, maxSpeed, calls, lookup>>
    /\ UNCHANGED <<cpuVars, speedVars>>

(***************************************************************************)
(* Specifications.                                                         *)
(***************************************************************************)
CPUIdle ==
    /\ Node = [Hostname |-> "host", Hypervisor |-> ""]
    /\ hostCPUs = 1
    /\ CPU = ZeroCPU
    /\ cpu = {}
    /\ core = {}
    /\ cpuCount = 0
    /\ coreCount = 0
    /\ cpuID = << >>
    /\ stream = << >>
    /\ cpc = "entry"

SpeedIdle ==
    /\ supp = {}
    /\ speed = 0
    /\ spc = "call"

\* getCPUInfo on streams of the topology lines, on every host.
Init == InitCPU /\ InitNet /\ SpeedIdle
Next == OpenFail \/ OpenOk \/ ScanTopo \/ ScanErr \/ ScanEnd
Spec == Init /\ [][Next]_vars

\* getCPUInfo on streams of the field lines.
InitFields == CPUIdle /\ InitNet /\ SpeedIdle
NextFields == OpenFail \/ OpenOk \/ ScanFields \/ ScanErr \/ ScanEnd
SpecFields == InitFields /\ [][NextFields]_vars

\* getNetworkInfo.
InitNetwork == CPUIdle /\ InitNet /\ SpeedIdle
NextNetwork ==
    \/ ReadDirFail \/ ReadDirOk \/ LinkCheck \/ TryModern \/ ModernHandshake
    \/ ModernFull \/ FallbackLegacy \/ AppendDevice \/ Return
SpecNetwork == InitNetwork /\ [][NextNetwork]_vars

\* getMaxSpeed.
InitMaxSpeed == CPUIdle /\ InitNet /\ InitSpeed
NextMaxSpeed == CallGetMaxSpeed
SpecMaxSpeed == InitMaxSpeed /\ [][NextMaxSpeed]_vars

(***************************************************************************)
(* What a record stream says, read off the stream itself.                  *)
(***************************************************************************)
HasKey(line, k) == LET sl == reTwoColumnsSplit(line) IN Len(sl) = 2 /\ sl[1] = k
ValueOf(line) == reTwoColumnsSplit(line)[2]

LinesOf(st, k) == {i \in 1..Len(st) : HasKey(st[i], k)}

\* The distinct processor values of the stream.
ProcessorValues(st) == {ValueOf(st[i]) : i \in LinesOf(st, KeyProcessor)}

\* The processor value in force at line i: that of the last processor line
\* before it, "" when there is none.
ProcessorAt(st, i) ==
    LET before == {j \in LinesOf(st, KeyProcessor) : j < i}
    IN  IF before = {} THEN << >>
        ELSE ValueOf(st[CHOOSE j \in before : \A m \in before : m <= j])

\* The distinct (processor, core id) pairs of the stream.
CorePairs(st) == {<<ProcessorAt(st, i), ValueOf(st[i])>> : i \in LinesOf(st, KeyCoreID)}

\* The value a line of key k gives its field.
Derived(k, v) ==
    CASE k = KeyModelName -> CleanModel(v)
      [] k = KeyCpuMHz -> (IF ParseFloat32(v).err THEN 0 ELSE UintOfFloat(ParseFloat32(v)))
      [] k = KeyCacheSize -> (IF reCacheSizeMatch(v).nil \/ ParseUint64(reCacheSizeMatch(v).m1).err
                           THEN 0 ELSE ParseUint64(reCacheSizeMatch(v).m1).val)
      [] OTHER -> v

Unset(k) == IF k \in {KeyCpuMHz, KeyCacheSize} THEN 0 ELSE << >>

FieldOf(k) ==
    CASE k = KeyVendorID -> CPU.Vendor
      [] k = KeyFlags -> CPU.Flags
      [] k = KeyModelName -> CPU.Model
      [] k = KeyCpuMHz -> CPU.Speed
      [] k = KeyCacheSize -> CPU.Cache

FieldKeys == {KeyVendorID, KeyFlags, KeyModelName, KeyCpuMHz, KeyCacheSize}

Least(S) == CHOOSE i \in S : \A m \in S : i <= m

Returned == cpc \in {"open_failed", "scan_error", "finished"}

(***************************************************************************)
(* Claims about getCPUInfo.                                                *)
(***************************************************************************)

\* C1: after getCPUInfo has read the stream to its end on a host whose
\* hostname is unknown or which runs under a hypervisor, CPU.Cpus and
\* CPU.Cores are the fallback counters cpuCount and coreCount.
C1_FallbackCountersReported ==
    (cpc = "finished" /\ Virtualized) =>
        (CPU.Cpus = cpuCount /\ CPU.Cores = coreCount)

\* C4: getCPUInfo never fails on a malformed line: whatever the stream, a
\* line that is a recognized key without separator and value is skipped and
\* the call does not panic.
C4_NoPanicOnMalformedLine == cpc # "panic"

\* C7, as claimed: after every call Cpus <= Threads, Cores <= Threads and
\* Threads <= the host's logical CPU count.
C7_CountsBoundedByThreads ==
    Returned =>
        (CPU.Cpus <= CPU.Threads /\ CPU.Cores <= CPU.Threads /\ CPU.Threads <= hostCPUs)

\* C7, amended: after every call Threads is the host's logical CPU count;
\* Cpus <= Threads holds when the stream lists no more distinct processor
\* values than that count, and Cores <= Threads when it lists no more distinct
\* (processor, core id) pairs than that count.
C7_ThreadsIsHostCount ==
    Returned =>
        /\ CPU.Threads = hostCPUs
        /\ Cardinality(ProcessorValues(stream)) <= hostCPUs => CPU.Cpus <= CPU.Threads
        /\ Cardinality(CorePairs(stream)) <= hostCPUs => CPU.Cores <= CPU.Threads

C7_Witness ==
    /\ cpc = "finished"
    /\ hostCPUs = 4
    /\ Cardinality(ProcessorValues(stream)) = 2
    /\ Cardinality(CorePairs(stream)) = 2
    /\ CPU.Cpus = 2
    /\ CPU.Cores = 2
    /\ CPU.Threads = 4

\* C8: on a host with a known hostname and no hypervisor, after the stream is
\* read to its end, Cpus is the number of distinct processor values of the
\* stream and Cores the number of its distinct (processor, core id) pairs.
C8_DistinctCounts ==
    (cpc = "finished" /\ ~Virtualized) =>
        /\ CPU.Cpus = Cardinality(ProcessorValues(stream))
        /\ CPU.Cores = Cardinality(CorePairs(stream))

\* Two processor blocks, both with core id 0.
C8_Witness ==
    /\ cpc = "finished"
    /\ ~Virtualized
    /\ stream = <<Line(KeyProcessor, Sep1, <<"0">>), Line(KeyCoreID, Sep2, <<"0">>),
                  Line(KeyProcessor, Sep1, <<"1">>), Line(KeyCoreID, Sep2, <<"0">>)>>
    /\ CPU.Cpus = 2
    /\ CPU.Cores = 2

\* C10, as claimed: each of Vendor, Model, Speed, Cache and Flags holds the
\* value derived from the first line of its key in the stream, also when that
\* value is empty or zero.
C10_FirstLineWins ==
    \A k \in FieldKeys :
        LinesOf(stream, k) # {} =>
            FieldOf(k) = Derived(k, ValueOf(stream[Least(LinesOf(stream, k))]))

\* C10, amended: each of the five fields holds the value derived from the
\* first line of its key whose derived value is not empty (Vendor, Model,
\* Flags) or not zero (Speed, Cache), and is unset when there is no such line.
C10_FirstNonZeroLineWins ==
    \A k \in FieldKeys :
        LET set == {i \in LinesOf(stream, k) : Derived(k, ValueOf(stream[i])) # Unset(k)}
        IN  FieldOf(k) = IF set = {} THEN Unset(k)
                         ELSE Derived(k, ValueOf(stream[Least(set)]))

\* An empty vendor_id line, then two different vendors: the first of them stays.
C10_Witness ==
    /\ stream = <<Line(KeyVendorID, Sep1, << >>),
                  Line(KeyVendorID, Sep1, <<"GenuineIntel">>),
                  Line(KeyVendorID, Sep1, <<"AuthenticAMD">>)>>
    /\ CPU.Vendor = <<"GenuineIntel">>

(***************************************************************************)
(* Claims about getNetworkInfo.                                            *)
(***************************************************************************)
IsCall(c, name) == c.call = name

\* The modern exchange succeeded: socket, a first ioctl answered with a
\* negative word count and the command code 0x4c, and a second ioctl.
ModernSucceeded(cs) ==
    /\ Len(cs) >= 3
    /\ cs[1].ok
    /\ IsCall(cs[2], "GLINKSETTINGS") /\ cs[2].ok /\ cs[2].nwords < 0 /\ cs[2].cmd = 76
    /\ IsCall(cs[3], "GLINKSETTINGS") /\ cs[3].ok

LegacyCalls(cs) == {i \in 1..Len(cs) : IsCall(cs[i], "getSupported")}
LegacySupported(cs) ==
    LET c == cs[Least(LegacyCalls(cs))] IN IF c.ok THEN c.supported ELSE {}

\* The capability query of this iteration is over.
Decided == npc = "addrs" \/ (npc \in {"loop", "done"} /\ calls # << >>)
\* This iteration has appended its device.
Appended == npc \in {"loop", "done"} /\ calls # << >>
LastFact == Network[Len(Network)]

StringsOf(lk) == IF lk.ok THEN [i \in 1..Len(lk.addrs) |-> AddrString(lk.addrs[i])] ELSE << >>

\* The names of the entries of l that are symlinks, in order.
RECURSIVE SymlinkNames(_)
SymlinkNames(l) ==
    IF l = << >> THEN << >>
    ELSE (IF Head(l).Kind = "file" THEN << >> ELSE <<Head(l).Name>>) \o SymlinkNames(Tail(l))

\* C2: port type and speed are taken from the modern response only if the
\* first ioctl succeeded with a negative word count and the command code 0x4c
\* and the second ioctl succeeded; in every other case getSupported, the legacy
\* GSET query, is called and port type and speed are decoded from its result
\* (the zero mask when its own socket() or its ioctl fails).
C2_ModernOnlyAfterHandshake ==
    Decided =>
        IF ModernSucceeded(calls)
        THEN /\ LegacyCalls(calls) = {}
             /\ portType = getPortTypeForGLinkSetting(calls[3].port)
             /\ maxSpeed = calls[3].speed
        ELSE /\ LegacyCalls(calls) # {}
             /\ portType = getPortType(LegacySupported(calls))
             /\ maxSpeed = getMaxSpeed(LegacySupported(calls))

\* A first ioctl answered with a positive word count, then the legacy query.
C2_Witness ==
    /\ npc = "addrs"
    /\ Len(calls) = 3
    /\ calls[2].ok /\ calls[2].nwords > 0 /\ calls[2].cmd = 76
    /\ IsCall(calls[3], "getSupported") /\ calls[3].ok
    /\ maxSpeed = 10000

\* C3, as claimed: the number of facts is the number of entries that are
\* symlinks whose target exists; a dangling symlink is skipped.
C3_DanglingSkipped ==
    npc = "done" =>
        Len(Network) = Cardinality({i \in 1..Len(devices) :
                                       devices[i].Kind \in {"link", "virtual"}})

\* C3, amended: the number of facts is the number of entries that are
\* symlinks, whether or not the target exists; one resolvable and one dangling
\* symlink give two facts.
C3_SymlinksCounted ==
    npc = "done" =>
        Len(Network) = Cardinality({i \in 1..Len(devices) : devices[i].Kind # "file"})

C3_Witness ==
    /\ npc = "done"
    /\ Len(devices) = 2
    /\ devices[1].Kind = "link"
    /\ devices[2].Kind = "dangling"
    /\ Len(Network) = 2
    /\ Network[2].Name = devices[2].Name

\* C5: the IpAddresses of a device are the string forms of the addresses the
\* interface lookup returned, and empty only when the lookup failed, whatever
\* the capability query did.
C5_AddressesIndependentOfQuery ==
    Appended => LastFact.IpAddresses = StringsOf(lookup)

\* C6: the enumeration goes on to the end of the listing whatever the queries
\* answer: it can always take a step until it returns, at every loop head the
\* facts are those of the entries passed so far that are symlinks, in order,
\* it returns only at the end of the listing, and a device whose modern and
\* legacy query both failed has Port = "" and Speed = 0.
C6_QueryFailureNeverAborts ==
    /\ npc # "done" => ENABLED NextNetwork
    /\ (npc \in {"loop", "done"} /\ idx >= 1) =>
          [i \in 1..Len(Network) |-> Network[i].Name]
              = SymlinkNames(SubSeq(devices, 1, idx - 1))
    /\ (npc = "done" /\ idx >= 1) => idx = Len(devices) + 1
    /\ (Appended /\ ~ModernSucceeded(calls) /\ ~calls[Len(calls)].ok) =>
          (LastFact.Port = << >> /\ LastFact.Speed = 0)

\* Two devices; the second one's modern and legacy query both failed.
C6_Witness ==
    /\ npc = "done"
    /\ Len(devices) = 2
    /\ Len(Network) = 2
    /\ ~ModernSucceeded(calls)
    /\ IsCall(calls[Len(calls)], "getSupported") /\ ~calls[Len(calls)].ok
    /\ Network[1].Port # << >>
    /\ Network[2].Port = << >>
    /\ Network[2].Speed = 0

(***************************************************************************)
(* Claims about getMaxSpeed.                                               *)
(***************************************************************************)
\* The eight tier tests, in the order of their priority, each with the bit
\* positions of its mask.
Tiers ==
    << [speed |-> 56000, bits |-> {27, 28, 29, 30}],
       [speed |-> 40000, bits |-> {23, 24, 25, 26}],
       [speed |-> 20000, bits |-> {21, 22}],
       [speed |-> 10000, bits |-> {12, 18, 19, 20}],
       [speed |-> 2500, bits |-> {15}],
       [speed |-> 1000, bits |-> {4, 5, 17}],
       [speed |-> 100, bits |-> {2, 3}],
       [speed |-> 10, bits |-> {0, 1}] >>

\* C9: getMaxSpeed returns the speed of the first tier, in the order 56000,
\* 40000, 20000, 10000, 2500, 1000, 100, 10, whose test the mask matches, and
\* 0 exactly when the mask matches none of the eight tests.
C9_HighestTierWins ==
    spc = "returned" =>
        LET hit == {i \in 1..8 : supp \cap Tiers[i].bits # {}}
        IN  /\ speed = IF hit = {} THEN 0 ELSE Tiers[Least(hit)].speed
            /\ speed = 0 <=> hit = {}

\* A mask matching both the 10000 and the 1000 test.
C9_Witness ==
    /\ spc = "returned"
    /\ supp = {5, 12}
    /\ speed = 10000

====
